---- MODULE Spec2Model ----
(***************************************************************************)
(* Access control and session bootstrap of the Sentry MCP server:          *)
(*   - OAuthClient (mcp-test-client/src/auth/oauth.ts): authorization-code *)
(*     + PKCE flow with a one-shot local callback listener;                *)
(*   - cli/parse, cli/resolve: merge and finalize of CLI and environment   *)
(*     configuration;                                                      *)
(*   - permissions / skills / server: scope expansion, skill checks, the   *)
(*     tool gate of configureServer and constraint injection at call time. *)
(***************************************************************************)
EXTENDS Integers, Sequences, FiniteSets, TLC

\* ------------------------------------------------------------------------
\* Bounds
\* ------------------------------------------------------------------------
\* Number of authenticate() invocations followed on one OAuthClient.
MaxCalls == 2

Calls == 1..MaxCalls

\* The value of an absent reference (null / undefined).
Null == "null"

\* ------------------------------------------------------------------------
\* OAuthClient: values
\* ------------------------------------------------------------------------
\* Values generateState() can return (randomBytes(16), two representatives).
States == {"s1", "s2"}

\* Authorization codes a callback can carry.
Codes == {"codeA", "codeB"}

\* Access tokens the token endpoint can return.
Tokens == {"tokA", "tokB"}

\* client_id values the registration endpoint can return.
ClientIds == {"client1"}

\* Request paths reaching the local listener.
Paths == {"/callback", "/other"}

\* `error` query parameter values of a callback.
OAuthErrors == {"access_denied"}

\* Errors authenticate() can reject with.
ErrRegistration == "Client registration failed"
ErrOAuth == "OAuth error"
ErrMissing == "Missing code or state parameter"
ErrCsrf == "State mismatch - possible CSRF attack"
ErrExchange == "Token exchange failed"
ErrCacheWrite == "setAccessToken failed"
ErrBind == "EADDRINUSE"

\* The pending-callback promise before waitForCallback() created it.
NoFuture == [status |-> "none", code |-> Null, state |-> Null, error |-> Null]

PendingFuture == [status |-> "pending", code |-> Null, state |-> Null, error |-> Null]

NoOutcome == [kind |-> "none", value |-> Null]

NoResponse == [ok |-> FALSE, access_token |-> Null]

\* The authorization URL before it is built.
NoAuthUrl == [client_id |-> Null, state |-> Null, code_challenge |-> Null]

\* generatePKCE(): the verifier call c draws and its S256 challenge.
Verifier(c) == "verifier" \o ToString(c)

Challenge(verifier) == "S256(" \o verifier \o ")"

\* The error of a browser that could not be opened.
ErrOpen == "Failed to open browser"

Range(seq) == {seq[i] : i \in 1..Len(seq)}

\* ------------------------------------------------------------------------
\* permissions.ts: scopes
\* ------------------------------------------------------------------------
\* ALL_SCOPES = Object.keys(SCOPE_HIERARCHY)
ALL_SCOPES ==
  {"org:read", "org:write", "org:admin",
   "project:read", "project:write", "project:admin",
   "team:read", "team:write", "team:admin",
   "member:read", "member:write", "member:admin",
   "event:read", "event:write", "event:admin",
   "project:releases"}

\* Variant: a scope implies nothing but itself.
SCOPE_HIERARCHY_Flat(scope) == {scope}

\* SCOPE_HIERARCHY[scope]: the scopes each scope implies.
SCOPE_HIERARCHY(scope) ==
  CASE scope = "org:read" -> {"org:read"}
    [] scope = "org:write" -> {"org:read", "org:write"}
    [] scope = "org:admin" -> {"org:read", "org:write", "org:admin"}
    [] scope = "project:read" -> {"project:read"}
    [] scope = "project:write" -> {"project:read", "project:write"}
    [] scope = "project:admin" -> {"project:read", "project:write", "project:admin"}
    [] scope = "team:read" -> {"team:read"}
    [] scope = "team:write" -> {"team:read", "team:write"}
    [] scope = "team:admin" -> {"team:read", "team:write", "team:admin"}
    [] scope = "member:read" -> {"member:read"}
    [] scope = "member:write" -> {"member:read", "member:write"}
    [] scope = "member:admin" -> {"member:read", "member:write", "member:admin"}
    [] scope = "event:read" -> {"event:read"}
    [] scope = "event:write" -> {"event:read", "event:write"}
    [] scope = "event:admin" -> {"event:read", "event:write", "event:admin"}
    [] scope = "project:releases" -> {"project:releases"}

DEFAULT_SCOPES == {"org:read", "project:read", "team:read", "event:read"}

\* Variant: a granted scope contributes what it implies, not itself.
expandScopes_ImpliedOnly(grantedScopes) ==
  UNION {SCOPE_HIERARCHY(scope) \ {scope} : scope \in grantedScopes}

expandScopes(grantedScopes) ==
  UNION {SCOPE_HIERARCHY(scope) : scope \in grantedScopes}

\* Variant: the granted scopes are used without expansion.
hasRequiredScopes_NoExpand(grantedScopes, requiredScopes) ==
  \A i \in 1..Len(requiredScopes) : requiredScopes[i] \in grantedScopes

\* requiredScopes.every((scope) => expandedScopes.has(scope))
hasRequiredScopes(grantedScopes, requiredScopes) ==
  \A i \in 1..Len(requiredScopes) : requiredScopes[i] \in expandScopes(grantedScopes)

isToolAllowed(requiredScopes, grantedScopes) ==
  IF Len(requiredScopes) = 0
  THEN TRUE
  ELSE hasRequiredScopes(grantedScopes, requiredScopes)

\* ------------------------------------------------------------------------
\* skills.ts
\* ------------------------------------------------------------------------
\* ALL_SKILLS = Object.keys(SKILLS)
ALL_SKILLS == {"inspect", "seer", "docs", "triage", "project-management"}

\* Skills whose definition has defaultEnabled: true.
DEFAULT_SKILLS == {"inspect", "seer"}

\* An optional set: undefined, or a Set.
Undefined == [present |-> FALSE, value |-> {}]

Defined(set) == [present |-> TRUE, value |-> set]

\* Variant: every required skill must be granted.
hasRequiredSkills_Every(grantedSkills, requiredSkills) ==
  IF ~grantedSkills.present \/ Len(requiredSkills) = 0
  THEN FALSE
  ELSE \A i \in 1..Len(requiredSkills) : requiredSkills[i] \in grantedSkills.value

hasRequiredSkills(grantedSkills, requiredSkills) ==
  IF ~grantedSkills.present \/ Len(requiredSkills) = 0
  THEN FALSE
  ELSE \E i \in 1..Len(requiredSkills) : requiredSkills[i] \in grantedSkills.value

\* ------------------------------------------------------------------------
\* Tool descriptors (defineTool): name, requiredSkills, requiredScopes and
\* the keys of inputSchema.
\* ------------------------------------------------------------------------
AllSkillsList == <<"inspect", "seer", "docs", "triage", "project-management">>

whoami ==
  [name |-> "whoami", requiredSkills |-> AllSkillsList,
   requiredScopes |-> <<>>, inputSchema |-> {}]

find_organizations ==
  [name |-> "find_organizations", requiredSkills |-> AllSkillsList,
   requiredScopes |-> <<"org:read">>, inputSchema |-> {"query"}]

find_teams ==
  [name |-> "find_teams",
   requiredSkills |-> <<"inspect", "triage", "project-management">>,
   requiredScopes |-> <<"team:read">>,
   inputSchema |-> {"organizationSlug", "regionUrl", "query"}]

find_projects ==
  [name |-> "find_projects", requiredSkills |-> AllSkillsList,
   requiredScopes |-> <<"project:read">>,
   inputSchema |-> {"organizationSlug", "regionUrl", "query"}]

find_releases ==
  [name |-> "find_releases", requiredSkills |-> <<"inspect">>,
   requiredScopes |-> <<"project:read">>,
   inputSchema |-> {"organizationSlug", "regionUrl", "projectSlug", "query"}]

find_dsns ==
  [name |-> "find_dsns", requiredSkills |-> <<"project-management">>,
   requiredScopes |-> <<"project:read">>,
   inputSchema |-> {"organizationSlug", "regionUrl", "projectSlug"}]

create_team ==
  [name |-> "create_team", requiredSkills |-> <<"project-management">>,
   requiredScopes |-> <<"team:write">>,
   inputSchema |-> {"organizationSlug", "regionUrl", "name"}]

create_project ==
  [name |-> "create_project", requiredSkills |-> <<"project-management">>,
   requiredScopes |-> <<"project:write", "team:read">>,
   inputSchema |-> {"organizationSlug", "regionUrl", "teamSlug", "name", "platform"}]

update_project ==
  [name |-> "update_project", requiredSkills |-> <<"project-management">>,
   requiredScopes |-> <<"project:write">>,
   inputSchema |-> {"organizationSlug", "regionUrl", "projectSlug", "name",
                    "slug", "platform", "teamSlug"}]

create_dsn ==
  [name |-> "create_dsn", requiredSkills |-> <<"project-management">>,
   requiredScopes |-> <<"project:write">>,
   inputSchema |-> {"organizationSlug", "regionUrl", "projectSlug", "name"}]

get_trace_details ==
  [name |-> "get_trace_details", requiredSkills |-> <<"inspect">>,
   requiredScopes |-> <<"event:read">>,
   inputSchema |-> {"organizationSlug", "regionUrl", "traceId"}]

get_issue_details ==
  [name |-> "get_issue_details",
   requiredSkills |-> <<"inspect", "triage", "seer">>,
   requiredScopes |-> <<"event:read">>,
   inputSchema |-> {"organizationSlug", "regionUrl", "issueId", "eventId", "issueUrl"}]

update_issue ==
  [name |-> "update_issue", requiredSkills |-> <<"triage">>,
   requiredScopes |-> <<"event:write">>,
   inputSchema |-> {"organizationSlug", "regionUrl", "issueId", "issueUrl",
                    "status", "assignedTo"}]

get_event_attachment ==
  [name |-> "get_event_attachment", requiredSkills |-> <<"inspect">>,
   requiredScopes |-> <<"event:read">>,
   inputSchema |-> {"organizationSlug", "projectSlug", "eventId",
                    "attachmentId", "regionUrl"}]

search_events ==
  [name |-> "search_events",
   requiredSkills |-> <<"inspect", "triage", "seer">>,
   requiredScopes |-> <<"event:read">>,
   inputSchema |-> {"organizationSlug", "naturalLanguageQuery", "projectSlug",
                    "regionUrl", "limit", "includeExplanation"}]

search_issues ==
  [name |-> "search_issues",
   requiredSkills |-> <<"inspect", "triage", "seer">>,
   requiredScopes |-> <<"event:read">>,
   inputSchema |-> {"organizationSlug", "naturalLanguageQuery", "projectSlugOrId",
                    "regionUrl", "limit", "includeExplanation"}]

analyze_issue_with_seer ==
  [name |-> "analyze_issue_with_seer", requiredSkills |-> <<"seer">>,
   requiredScopes |-> <<>>,
   inputSchema |-> {"organizationSlug", "regionUrl", "issueId", "issueUrl",
                    "instruction"}]

search_docs ==
  [name |-> "search_docs", requiredSkills |-> <<"docs">>,
   requiredScopes |-> <<>>, inputSchema |-> {"query", "maxResults", "guide"}]

get_doc ==
  [name |-> "get_doc", requiredSkills |-> <<"docs">>,
   requiredScopes |-> <<>>, inputSchema |-> {"path"}]

use_sentry ==
  [name |-> "use_sentry", requiredSkills |-> <<>>,
   requiredScopes |-> <<>>, inputSchema |-> {"request", "trace"}]

\* The default catalog (import tools from "./tools/index"): the 20 tools.
tools ==
  {whoami, find_organizations, find_teams, find_projects, find_releases,
   find_dsns, create_team, create_project, update_project, create_dsn,
   get_trace_details, get_issue_details, update_issue, get_event_attachment,
   search_events, search_issues, analyze_issue_with_seer, search_docs,
   get_doc, use_sentry}

\* The catalog of agent mode: "only exposes use_sentry tool".
agentTools == {use_sentry}

\* Variant: the handler passes the whole catalog to its internal server.
toolsForAgent_All == tools

\* use_sentry.handler: const { use_sentry, ...toolsForAgent } = tools
toolsForAgent == tools \ {use_sentry}

\* ------------------------------------------------------------------------
\* server.ts: configureServer
\* ------------------------------------------------------------------------
\* types.ts: parameter keys that can be auto-injected from constraints.
CONSTRAINT_PARAMETER_KEYS ==
  {"organizationSlug", "projectSlug", "projectSlugOrId", "regionUrl"}

NoConstraints ==
  [organizationSlug |-> Null, projectSlug |-> Null, regionUrl |-> Null]

\* Variant: with no grant at all the scope check runs on an empty set.
Allowed_ScopesByDefault(tool, grantedSkills, grantedScopes) ==
  IF grantedSkills.present
  THEN IF Len(tool.requiredSkills) > 0
       THEN hasRequiredSkills(grantedSkills, tool.requiredSkills)
       ELSE FALSE
  ELSE isToolAllowed(tool.requiredScopes, grantedScopes.value)

\* Variant: either system can grant access when both are set.
Allowed_EitherSystem(tool, grantedSkills, grantedScopes) ==
  \/ /\ grantedSkills.present
     /\ Len(tool.requiredSkills) > 0
     /\ hasRequiredSkills(grantedSkills, tool.requiredSkills)
  \/ /\ grantedScopes.present
     /\ isToolAllowed(tool.requiredScopes, grantedScopes.value)

\* The `allowed` decision of the registration loop.
Allowed(tool, grantedSkills, grantedScopes) ==
  IF grantedSkills.present
  THEN IF Len(tool.requiredSkills) > 0
       THEN hasRequiredSkills(grantedSkills, tool.requiredSkills)
       ELSE FALSE
  ELSE IF grantedScopes.present
       THEN isToolAllowed(tool.requiredScopes, grantedScopes.value)
       ELSE FALSE

\* internal/constraint-helpers: the constrained values keyed by the
\* parameter names of the tool they apply to; projectSlugOrId is an alias
\* of the projectSlug constraint.
getConstraintParametersToInject(constraints, inputSchema) ==
  LET keys ==
        {k \in {"organizationSlug", "projectSlug", "regionUrl"} :
           constraints[k] # Null /\ k \in inputSchema}
        \cup (IF constraints.projectSlug # Null /\ "projectSlugOrId" \in inputSchema
              THEN {"projectSlugOrId"} ELSE {})
  IN [k \in keys |->
        IF k = "projectSlugOrId" THEN constraints.projectSlug ELSE constraints[k]]

getConstraintKeysToFilter(constraints, inputSchema) ==
  DOMAIN getConstraintParametersToInject(constraints, inputSchema)

\* { ...params, ...applicableConstraints }
paramsWithConstraints(params, applicableConstraints) ==
  [k \in DOMAIN params \cup DOMAIN applicableConstraints |->
     IF k \in DOMAIN applicableConstraints
     THEN applicableConstraints[k]
     ELSE params[k]]

\* The tools server.tool() is called for.
RegisteredTools(context, toolsToRegister) ==
  {tool \in toolsToRegister :
     Allowed(tool, context.grantedSkills, context.grantedScopes)}

NoContext ==
  [grantedSkills |-> Undefined, grantedScopes |-> Undefined,
   constraints |-> NoConstraints]

NoServer ==
  [built |-> FALSE, context |-> NoContext, catalog |-> {}, registered |-> {}]

NoCall == [session |-> Null, tool |-> Null, params |-> <<>>, received |-> <<>>]

\* MCP sessions followed: each gets its own McpServer from buildServer().
Sessions == {"A", "B"}

\* ------------------------------------------------------------------------
\* cli/parse.ts and cli/resolve.ts: values
\* ------------------------------------------------------------------------
\* Number of flags given on the command line.
MaxCliFlags == 2

\* Number of configuration variables set in the environment.
MaxEnvVars == 1

\* A comma-separated list is a string written as its sequence of lexemes:
\* "," , " " (white space) and words.  An optional one is unset or set.
Unset == [present |-> FALSE, value |-> <<>>]

Str(lexemes) == [present |-> TRUE, value |-> lexemes]

\* JavaScript truthiness of an optional list string and of an optional string.
TruthyList(s) == s.present /\ s.value # <<>>

Truthy(s) == s # Null /\ s # ""

\* a ?? b
Coalesce(a, b) == IF a # Null THEN a ELSE b

CoalesceList(a, b) == IF a.present THEN a ELSE b

\* String.prototype.split(",")
RECURSIVE Split(_)
Split(str) ==
  IF \E i \in 1..Len(str) : str[i] = ","
  THEN LET i == CHOOSE j \in 1..Len(str) :
                  str[j] = "," /\ \A k \in 1..(j - 1) : str[k] # ","
       IN <<SubSeq(str, 1, i - 1)>> \o Split(SubSeq(str, i + 1, Len(str)))
  ELSE <<str>>

RECURSIVE Join(_)
Join(lexemes) ==
  IF lexemes = <<>> THEN "" ELSE Head(lexemes) \o Join(Tail(lexemes))

\* String.prototype.trim(), giving the text of the token.
RECURSIVE Trim(_)
Trim(tok) ==
  IF tok = <<>> THEN ""
  ELSE IF Head(tok) = " " THEN Trim(Tail(tok))
  ELSE IF tok[Len(tok)] = " " THEN Trim(SubSeq(tok, 1, Len(tok) - 1))
  ELSE Join(tok)

\* tokens.map((s) => s.trim())
TrimAll(tokens) == [i \in 1..Len(tokens) |-> Trim(tokens[i])]

\* ALL_SCOPES_SET.has(raw)
isValidScope(raw) == raw \in ALL_SCOPES

\* permissions.ts parseScopes, for a string input.
parseScopes(input) ==
  LET texts == SelectSeq(TrimAll(Split(input)), LAMBDA t : t # "")
  IN [valid |-> Range(SelectSeq(texts, isValidScope)),
      invalid |-> SelectSeq(texts, LAMBDA t : ~isValidScope(t))]

\* Variant: an override is unioned with the defaults.
resolveScopes_KeepDefaults(override, add, defaults) ==
  IF override.present THEN Defined(expandScopes(defaults \cup override.value))
  ELSE IF add.present THEN Defined(expandScopes(defaults \cup add.value))
  ELSE Undefined

\* permissions.ts resolveScopes
resolveScopes(override, add, defaults) ==
  IF override.present THEN Defined(expandScopes(override.value))
  ELSE IF add.present THEN Defined(expandScopes(defaults \cup add.value))
  ELSE Undefined

\* Property names every object inherits from Object.prototype.
ObjectPrototypeKeys ==
  {"constructor", "toString", "toLocaleString", "valueOf", "hasOwnProperty",
   "isPrototypeOf", "propertyIsEnumerable", "__proto__"}

\* skills.ts isValidSkill: `skill in SKILLS`
isValidSkill(skill) == skill \in ALL_SKILLS \cup ObjectPrototypeKeys

\* skills.ts parseSkills, for a string input.
parseSkills(input) ==
  IF input = <<>> THEN [valid |-> {}, invalid |-> <<>>]
  ELSE LET texts == TrimAll(Split(input))
       IN [valid |-> Range(SelectSeq(texts, isValidSkill)),
           invalid |-> SelectSeq(texts, LAMBDA t : ~isValidSkill(t) /\ t # "")]

\* URLs given as --url / SENTRY_URL, with their protocol and hostname.
UrlProtocol(url) ==
  CASE url = "https://cli.example" -> "https:"
    [] url = "http://cli.example" -> "http:"
    [] url = "https://env.example" -> "https:"
    [] OTHER -> Null

UrlHostname(url) ==
  CASE url = "https://cli.example" -> "cli.example"
    [] url = "http://cli.example" -> "cli.example"
    [] url = "https://env.example" -> "env.example"
    [] OTHER -> Null

\* utils/url-utils validateAndParseSentryUrlThrows: the hostname of a full
\* https URL, Null when it throws.
validateAndParseSentryUrlThrows(url) ==
  IF UrlProtocol(url) = "https:" THEN UrlHostname(url) ELSE Null

\* utils/url-utils validateSentryHostThrows: a bare hostname passes, a value
\* carrying a protocol throws.
validateSentryHostThrows(host) == UrlProtocol(host) = Null

\* List strings given as --scopes / --add-scopes / MCP_SCOPES / MCP_ADD_SCOPES.
ScopeStrings ==
  {<<>>,
   <<"event:write">>,
   <<"team:write">>,
   <<"org:read", ",", " ", "bogus", ",", "event:write", ",", "nope">>,
   <<" ", ",">>}

\* List strings given as --skills / MCP_SKILLS.
SkillStrings ==
  {<<>>,
   <<"inspect", ",", "triage">>,
   <<"inspect", ",", "bogus", ",", " ", "docs", ",", "nope">>,
   <<"toString">>,
   <<",", " ">>}

CliFields ==
  {"accessToken", "host", "url", "openaiBaseUrl", "scopes", "addScopes",
   "allScopes", "skills", "agent", "organizationSlug", "projectSlug"}

\* Whether a flag was given.
CliGiven(c, f) ==
  CASE f \in {"scopes", "addScopes", "skills"} -> c[f].present
    [] f \in {"allScopes", "agent"} -> c[f]
    [] OTHER -> c[f] # Null

\* CliArgs as parseArgv() returns them (help, version and unknownArgs make
\* index.ts exit before merge and are left out).
CliArgsSet ==
  {c \in [accessToken : {Null, "clitok"},
          host : {Null, "cli.example"},
          url : {Null, "https://cli.example", "http://cli.example"},
          openaiBaseUrl : {Null, "https://proxy.example/v1"},
          scopes : {Unset} \cup {Str(v) : v \in ScopeStrings},
          addScopes : {Unset} \cup {Str(v) : v \in ScopeStrings},
          allScopes : BOOLEAN,
          skills : {Unset} \cup {Str(v) : v \in SkillStrings},
          agent : BOOLEAN,
          organizationSlug : {Null, "c"},
          projectSlug : {Null, "p"}] :
     Cardinality({f \in CliFields : CliGiven(c, f)}) <= MaxCliFlags}

EnvVars ==
  {"SENTRY_ACCESS_TOKEN", "SENTRY_URL", "SENTRY_HOST", "MCP_SCOPES",
   "MCP_ADD_SCOPES", "MCP_SKILLS", "OPENAI_BASE_URL"}

EnvGiven(e, v) ==
  IF v \in {"MCP_SCOPES", "MCP_ADD_SCOPES", "MCP_SKILLS"}
  THEN e[v].present ELSE e[v] # Null

\* process.env
ProcessEnvs ==
  {e \in [SENTRY_ACCESS_TOKEN : {Null, "envtok"},
          SENTRY_URL : {Null, "https://env.example"},
          SENTRY_HOST : {Null, "env.example"},
          MCP_SCOPES : {Unset} \cup {Str(v) : v \in ScopeStrings},
          MCP_ADD_SCOPES : {Unset} \cup {Str(v) : v \in ScopeStrings},
          MCP_SKILLS : {Unset} \cup {Str(v) : v \in SkillStrings},
          OPENAI_BASE_URL : {Null, "https://evil.example/v1"}] :
     Cardinality({v \in EnvVars : EnvGiven(e, v)}) <= MaxEnvVars}

NoCliArgs ==
  [accessToken |-> Null, host |-> Null, url |-> Null, openaiBaseUrl |-> Null,
   scopes |-> Unset, addScopes |-> Unset, allScopes |-> FALSE,
   skills |-> Unset, agent |-> FALSE, organizationSlug |-> Null,
   projectSlug |-> Null]

NoEnvArgs ==
  [accessToken |-> Null, url |-> Null, host |-> Null, scopes |-> Unset,
   addScopes |-> Unset, skills |-> Unset]

NoConfig ==
  [error |-> Null, invalid |-> <<>>, accessToken |-> Null, sentryHost |-> Null,
   openaiBaseUrl |-> Null, finalScopes |-> Undefined, finalSkills |-> Undefined,
   organizationSlug |-> Null, projectSlug |-> Null]

\* parse.ts parseEnv: `if (env.X) fromEnv.x = env.X`
parseEnv(e) ==
  [accessToken |-> IF Truthy(e.SENTRY_ACCESS_TOKEN) THEN e.SENTRY_ACCESS_TOKEN ELSE Null,
   url |-> IF Truthy(e.SENTRY_URL) THEN e.SENTRY_URL ELSE Null,
   host |-> IF Truthy(e.SENTRY_HOST) THEN e.SENTRY_HOST ELSE Null,
   scopes |-> IF TruthyList(e.MCP_SCOPES) THEN e.MCP_SCOPES ELSE Unset,
   addScopes |-> IF TruthyList(e.MCP_ADD_SCOPES) THEN e.MCP_ADD_SCOPES ELSE Unset,
   skills |-> IF TruthyList(e.MCP_SKILLS) THEN e.MCP_SKILLS ELSE Unset]

\* Variant: each field is merged on its own, without the coupling of scopes
\* and addScopes.
merge_Uncoupled(c, e) ==
  [accessToken |-> Coalesce(c.accessToken, e.accessToken),
   url |-> Coalesce(c.url, e.url),
   host |-> Coalesce(c.host, e.host),
   openaiBaseUrl |-> c.openaiBaseUrl,
   scopes |-> CoalesceList(c.scopes, e.scopes),
   addScopes |-> CoalesceList(c.addScopes, e.addScopes),
   allScopes |-> c.allScopes = TRUE,
   skills |-> CoalesceList(c.skills, e.skills),
   agent |-> c.agent = TRUE,
   organizationSlug |-> c.organizationSlug,
   projectSlug |-> c.projectSlug]

\* parse.ts merge
merge(c, e) ==
  [accessToken |-> Coalesce(c.accessToken, e.accessToken),
   url |-> Coalesce(c.url, e.url),
   host |-> Coalesce(c.host, e.host),
   openaiBaseUrl |-> c.openaiBaseUrl,
   scopes |->
     IF TruthyList(c.addScopes) THEN c.scopes ELSE CoalesceList(c.scopes, e.scopes),
   addScopes |->
     IF TruthyList(c.scopes) THEN c.addScopes ELSE CoalesceList(c.addScopes, e.addScopes),
   allScopes |-> c.allScopes = TRUE,
   skills |-> CoalesceList(c.skills, e.skills),
   agent |-> c.agent = TRUE,
   organizationSlug |-> c.organizationSlug,
   projectSlug |-> c.projectSlug]

Fail(message, invalid) ==
  [NoConfig EXCEPT !.error = message, !.invalid = invalid]

\* resolve.ts finalize: the host it resolves, Null when validation throws.
ResolveHost(input) ==
  IF Truthy(input.url) THEN validateAndParseSentryUrlThrows(input.url)
  ELSE IF Truthy(input.host)
       THEN (IF validateSentryHostThrows(input.host) THEN input.host ELSE Null)
  ELSE "sentry.io"

\* resolve.ts finalize: the legacy scope resolution, as a ResolvedConfig
\* carrying finalScopes or the error thrown.
ResolveScopes(input) ==
  IF input.allScopes THEN [NoConfig EXCEPT !.finalScopes = Defined(ALL_SCOPES)]
  ELSE IF TruthyList(input.scopes)
  THEN LET p == parseScopes(input.scopes.value) IN
       IF Len(p.invalid) > 0 THEN Fail("Invalid scopes provided", p.invalid)
       ELSE IF p.valid = {}
       THEN Fail("Invalid scopes provided. No valid scopes found.", <<>>)
       ELSE [NoConfig EXCEPT !.finalScopes =
               resolveScopes(Defined(p.valid), Undefined, DEFAULT_SCOPES)]
  ELSE IF TruthyList(input.addScopes)
  THEN LET p == parseScopes(input.addScopes.value) IN
       IF Len(p.invalid) > 0 THEN Fail("Invalid scopes provided", p.invalid)
       ELSE IF p.valid = {}
       THEN Fail("Invalid additional scopes provided. No valid scopes found.", <<>>)
       ELSE [NoConfig EXCEPT !.finalScopes =
               resolveScopes(Undefined, Defined(p.valid), DEFAULT_SCOPES)]
  ELSE NoConfig

\* resolve.ts finalize: the skills resolution.
ResolveSkills(input) ==
  IF TruthyList(input.skills)
  THEN LET p == parseSkills(input.skills.value) IN
       IF Len(p.invalid) > 0 THEN Fail("Invalid skills provided", p.invalid)
       ELSE IF p.valid = {}
       THEN Fail("Invalid skills provided. No valid skills found.", <<>>)
       ELSE [NoConfig EXCEPT !.finalSkills = Defined(p.valid)]
  ELSE [NoConfig EXCEPT !.finalSkills = Defined(ALL_SKILLS)]

\* utils/url-utils validateOpenAiBaseUrlThrows: an absolute http(s) URL.
validateOpenAiBaseUrlThrows(url) ==
  IF url \in {"https://proxy.example/v1", "https://evil.example/v1"}
  THEN url ELSE Null

\* resolve.ts finalize
finalize(input) ==
  IF ~Truthy(input.accessToken) THEN Fail("No access token was provided", <<>>)
  ELSE IF ResolveHost(input) = Null THEN Fail("Invalid host or URL", <<>>)
  ELSE IF ResolveScopes(input).error # Null THEN ResolveScopes(input)
  ELSE IF ResolveSkills(input).error # Null THEN ResolveSkills(input)
  ELSE IF Truthy(input.openaiBaseUrl)
          /\ validateOpenAiBaseUrlThrows(input.openaiBaseUrl) = Null
  THEN Fail("Invalid OpenAI base URL", <<>>)
  ELSE [error |-> Null, invalid |-> <<>>,
        accessToken |-> input.accessToken,
        sentryHost |-> ResolveHost(input),
        openaiBaseUrl |->
          IF Truthy(input.openaiBaseUrl)
          THEN validateOpenAiBaseUrlThrows(input.openaiBaseUrl) ELSE Null,
        finalScopes |-> ResolveScopes(input).finalScopes,
        finalSkills |-> ResolveSkills(input).finalSkills,
        organizationSlug |-> input.organizationSlug,
        projectSlug |-> input.projectSlug]

VARIABLES
  pc,            \* position of each authenticate() invocation
  server,        \* this.server: {c} for the Server object call c created, {} for null
  listener,      \* the Server object bound to the callback port: {c}, or {} when free
  armed,         \* armed[c]: resolveCallback/rejectCallback of server c are set
  future,        \* the promise returned by waitForCallback() of call c
  genState,      \* the `state` generated by call c
  clientId,      \* the local clientId of call c
  everBound,     \* call c's listener reached the 'listening' callback
  callbackSeen,  \* server c has handled a request on /callback
  lastStatus,    \* <<status>> of the last response the listener wrote, <<>> before any
  tokenRequests, \* token-exchange requests sent, as [call, code, clientId]
  tokenResponse, \* the token endpoint's response to call c
  registrations, \* registrations[c]: dynamic-client-registration requests call c sent
  clientIdCache, \* ConfigManager: client_id stored for the host
  tokenCache,    \* ConfigManager: access token stored for the host
  cacheAtStart,  \* tokenCache when call c began
  authUrl,       \* the authorization URL call c opened: its client_id and state
  outcome,       \* what authenticate() returned or threw
  mcpServer,     \* per session: the context, catalog and registered tools of its McpServer
  lastCall,      \* the last tools/call: caller params and what tool.handler received
  embedded,      \* per session: the internal McpServer its use_sentry handler built
  cli,           \* CliArgs returned by parseArgv(process.argv)
  processEnv,    \* process.env
  env,           \* EnvArgs returned by parseEnv
  merged,        \* MergedArgs returned by merge
  cfg,           \* ResolvedConfig returned by finalize, or the error it threw
  cfgPc,         \* position of index.ts
  probe,         \* a direct call of an exported function: its name and arguments
  probeResult,   \* <<value>> returned by that call, <<>> before it returns
  callbackReq,   \* GET /oauth/callback: the request and what its collaborators answer
  callback       \* GET /oauth/callback: position, calls made so far, response

oauthVars == <<pc, server, listener, armed, future, genState, clientId,
               everBound, callbackSeen, lastStatus, tokenRequests,
               tokenResponse, registrations, clientIdCache, tokenCache,
               cacheAtStart, authUrl, outcome>>

gateVars == <<mcpServer, lastCall, embedded>>

configVars == <<cli, processEnv, env, merged, cfg, cfgPc>>

libVars == <<probe, probeResult>>

routeVars == <<callbackReq, callback>>

vars == <<oauthVars, gateVars, configVars, libVars, routeVars>>

\* ------------------------------------------------------------------------
\* OAuthClient: helpers
\* ------------------------------------------------------------------------
Finished(c) == pc[c] \in {"done", "failed"}

InFlight(c) == pc[c] \notin {"idle", "done", "failed"}

NoCallInFlight == \A c \in Calls : ~InFlight(c)

\* Invocations are numbered in the order they are made.
IsNextCall(c) == \A d \in Calls : d < c => pc[d] # "idle"

\* Variant: the received state is accepted without comparison.
StateVerified_Unchecked(receivedState, state) == TRUE

\* if (receivedState !== state) throw ...
StateVerified(receivedState, state) == receivedState = state

\* Variant: a non-ok token response is not detected.
ExchangeFailed_Ignored(response) == FALSE

\* if (!response.ok) throw new Error(`Token exchange failed ...`)
ExchangeFailed(response) == ~response.ok

\* Variant: the reference is dropped without closing the server.
ListenerAfterFinally_NoClose(srv, lst) == lst

\* finally { if (this.server) { this.server.close(); this.server = null; } }
\* The listener left bound after the finally block ran.
ListenerAfterFinally(srv, lst) ==
  IF srv # {} THEN lst \ srv ELSE lst

\* Variant: the port may be bound while another listener holds it.
PortFree_Always(lst) == TRUE

\* server.listen(OAUTH_REDIRECT_PORT): 'listening' when no listener holds
\* the port, 'error' (address in use) otherwise.
PortFree(lst) == lst = {}

\* Variant: a settled promise is settled again by a later request.
CanSettle_Again(isArmed, fut) == isArmed

\* if (resolveCallback) / if (rejectCallback), and a promise settles once:
\* a request settles the promise only when waitForCallback() has set the
\* callbacks and the promise is still pending.
CanSettle(isArmed, fut) == isArmed /\ fut.status = "pending"

\* The request handler of createServer: the status it writes.
ResponseStatus(req) ==
  IF req.path = "/callback"
  THEN IF req.error # Null THEN 400
       ELSE IF req.code = Null \/ req.state = Null THEN 400
       ELSE 200
  ELSE 404

\* Variant: code and state are looked at before the error parameter.
Settle_CodeBeforeError(fut, req) ==
  IF req.path # "/callback" THEN fut
  ELSE IF req.code # Null /\ req.state # Null
       THEN [status |-> "resolved", code |-> req.code, state |-> req.state, error |-> Null]
  ELSE IF req.error # Null
       THEN [status |-> "rejected", code |-> Null, state |-> Null, error |-> ErrOAuth]
  ELSE [status |-> "rejected", code |-> Null, state |-> Null, error |-> ErrMissing]

\* The request handler of createServer: how it settles a pending promise.
Settle(fut, req) ==
  IF req.path # "/callback" THEN fut
  ELSE IF req.error # Null
       THEN [status |-> "rejected", code |-> Null, state |-> Null, error |-> ErrOAuth]
  ELSE IF req.code = Null \/ req.state = Null
       THEN [status |-> "rejected", code |-> Null, state |-> Null, error |-> ErrMissing]
  ELSE [status |-> "resolved", code |-> req.code, state |-> req.state, error |-> Null]

Requests ==
  [path : Paths, code : Codes \cup {Null}, state : States \cup {Null},
   error : OAuthErrors \cup {Null}]

TokenResponses ==
  {NoResponse} \cup [ok : {TRUE}, access_token : Tokens]

\* ------------------------------------------------------------------------
\* OAuthClient: initial state
\* ------------------------------------------------------------------------
InitOAuth ==
  /\ pc = [c \in Calls |-> "idle"]
  /\ server = {}
  /\ listener = {}
  /\ armed = [c \in Calls |-> FALSE]
  /\ future = [c \in Calls |-> NoFuture]
  /\ genState = [c \in Calls |-> Null]
  /\ clientId = [c \in Calls |-> Null]
  /\ everBound = [c \in Calls |-> FALSE]
  /\ callbackSeen = [c \in Calls |-> FALSE]
  /\ lastStatus = <<>>
  /\ tokenRequests = {}
  /\ tokenResponse = [c \in Calls |-> NoResponse]
  /\ registrations = [c \in Calls |-> 0]
  /\ clientIdCache \in ClientIds \cup {Null}
  /\ tokenCache = Null
  /\ cacheAtStart = [c \in Calls |-> Null]
  /\ authUrl = [c \in Calls |-> NoAuthUrl]
  /\ outcome = [c \in Calls |-> NoOutcome]

\* The OAuth client of a process that never authenticates.
OAuthIdle == InitOAuth /\ clientIdCache = Null

\* No exported function is called directly.
NoProbe == [fn |-> "none"]

LibraryIdle == probe = NoProbe /\ probeResult = <<>>

\* lookupClient found no client.
NoClient == [throws |-> FALSE, found |-> FALSE, redirectUris |-> {}]

\* No request reached GET /oauth/callback.
NoCallbackRequest ==
  [stateVerifies |-> FALSE, clientId |-> Null, redirectUri |-> Null,
   resource |-> Null, resourceValid |-> FALSE, isApproved |-> FALSE,
   client |-> NoClient]

NoCallback == [pc |-> "idle", calls |-> <<>>, status |-> 0, text |-> ""]

RouteIdle == callbackReq = NoCallbackRequest /\ callback = NoCallback

InitGate ==
  /\ mcpServer = [s \in Sessions |-> NoServer]
  /\ lastCall = NoCall
  /\ embedded = [s \in Sessions |-> NoServer]

\* index.ts before it read its configuration: arguments and environment
\* are those of the process.
InitConfig ==
  /\ cli \in CliArgsSet
  /\ processEnv \in ProcessEnvs
  /\ env = NoEnvArgs
  /\ merged = NoCliArgs
  /\ cfg = NoConfig
  /\ cfgPc = "start"

\* A process that is not the stdio entry point.
ConfigIdle ==
  /\ cli = NoCliArgs
  /\ processEnv = [v \in EnvVars |->
       IF v \in {"MCP_SCOPES", "MCP_ADD_SCOPES", "MCP_SKILLS"} THEN Unset ELSE Null]
  /\ env = NoEnvArgs
  /\ merged = NoCliArgs
  /\ cfg = NoConfig
  /\ cfgPc = "start"

\* ------------------------------------------------------------------------
\* OAuthClient.authenticate(), one action per await
\* ------------------------------------------------------------------------
\* Variant: the stored client id is never used.
ClientIdCached_Never(cached) == FALSE

\* getOrRegisterClientId(): if (clientId) return clientId
ClientIdCached(cached) == cached # Null

\* authenticate() is entered: getOrRegisterClientId() reads the client cache;
\* a cached id is used, otherwise the registration request is sent.
Authenticate(c) ==
  /\ pc[c] = "idle"
  /\ cacheAtStart' = [cacheAtStart EXCEPT ![c] = tokenCache]
  /\ IF ClientIdCached(clientIdCache)
     THEN /\ clientId' = [clientId EXCEPT ![c] = clientIdCache]
          /\ server' = {c}
          /\ pc' = [pc EXCEPT ![c] = "binding"]
          /\ UNCHANGED registrations
     ELSE /\ registrations' = [registrations EXCEPT ![c] = @ + 1]
          /\ pc' = [pc EXCEPT ![c] = "registering"]
          /\ UNCHANGED <<clientId, server>>
  /\ UNCHANGED <<listener, armed, future, genState, everBound, callbackSeen,
                 lastStatus, tokenRequests, tokenResponse, clientIdCache,
                 tokenCache, outcome>>
  /\ UNCHANGED <<authUrl, gateVars, configVars, libVars, routeVars>>

\* registerClient() answered: a client_id is stored and the callback server
\* is created, or the flow aborts.
RegisterResponse(c, ok, id) ==
  /\ pc[c] = "registering"
  /\ IF ok
     THEN /\ clientIdCache' = id
          /\ clientId' = [clientId EXCEPT ![c] = id]
          /\ server' = {c}
          /\ pc' = [pc EXCEPT ![c] = "binding"]
          /\ UNCHANGED outcome
     ELSE /\ pc' = [pc EXCEPT ![c] = "failed"]
          /\ outcome' = [outcome EXCEPT ![c] = [kind |-> "error", value |-> ErrRegistration]]
          /\ UNCHANGED <<clientIdCache, clientId, server>>
  /\ UNCHANGED <<listener, armed, future, genState, everBound, callbackSeen,
                 lastStatus, tokenRequests, tokenResponse, registrations,
                 tokenCache, cacheAtStart>>
  /\ UNCHANGED <<authUrl, gateVars, configVars, libVars, routeVars>>

\* server.listen() completed: the 'listening' callback resolves
\* startCallbackServer(), PKCE and state are generated and open() is called;
\* or 'error' rejects it and authenticate() throws outside its try/finally.
Listen(c, st) ==
  /\ pc[c] = "binding"
  /\ IF PortFree(listener)
     THEN /\ listener' = {c}
          /\ everBound' = [everBound EXCEPT ![c] = TRUE]
          /\ genState' = [genState EXCEPT ![c] = st]
          /\ authUrl' = [authUrl EXCEPT ![c] =
                          [client_id |-> clientId[c], state |-> st,
                           code_challenge |-> Challenge(Verifier(c))]]
          /\ pc' = [pc EXCEPT ![c] = "opening"]
          /\ UNCHANGED outcome
     ELSE /\ pc' = [pc EXCEPT ![c] = "failed"]
          /\ outcome' = [outcome EXCEPT ![c] = [kind |-> "error", value |-> ErrBind]]
          /\ UNCHANGED <<listener, everBound, genState, authUrl>>
  /\ UNCHANGED <<server, armed, future, clientId, callbackSeen, lastStatus,
                 tokenRequests, tokenResponse, registrations, clientIdCache,
                 tokenCache, cacheAtStart>>
  /\ UNCHANGED <<gateVars, configVars, libVars, routeVars>>

\* Variant: open() is awaited without the try/catch around it.
OpenThrows_Uncaught(opened) == ~opened

\* try { await open(authUrl) } catch {}: whether a failure of open() leaves
\* authenticate().
OpenThrows(opened) == FALSE

\* `await open(authUrl)` settled (a failure is swallowed), then
\* waitForCallback() creates the promise and sets resolve/rejectCallback.
\* A failure that left authenticate() here would do so before the try whose
\* finally block closes the server.
OpenBrowser(c, opened) ==
  /\ pc[c] = "opening"
  /\ opened \in BOOLEAN
  /\ IF OpenThrows(opened)
     THEN /\ pc' = [pc EXCEPT ![c] = "failed"]
          /\ outcome' = [outcome EXCEPT ![c] = [kind |-> "error", value |-> ErrOpen]]
          /\ UNCHANGED <<armed, future>>
     ELSE /\ armed' = [armed EXCEPT ![c] = TRUE]
          /\ future' = [future EXCEPT ![c] = PendingFuture]
          /\ pc' = [pc EXCEPT ![c] = "awaiting"]
          /\ UNCHANGED outcome
  /\ UNCHANGED <<server, listener, genState, clientId, everBound,
                 callbackSeen, lastStatus, tokenRequests, tokenResponse,
                 registrations, clientIdCache, tokenCache, cacheAtStart>>
  /\ UNCHANGED <<authUrl, gateVars, configVars, libVars, routeVars>>

\* The bound listener handles one HTTP request.
HandleRequest(req) ==
  /\ listener # {}
  /\ LET s == CHOOSE c \in listener : TRUE IN
     /\ lastStatus' = <<ResponseStatus(req)>>
     /\ callbackSeen' =
          IF req.path = "/callback"
          THEN [callbackSeen EXCEPT ![s] = TRUE]
          ELSE callbackSeen
     /\ future' =
          IF CanSettle(armed[s], future[s])
          THEN [future EXCEPT ![s] = Settle(future[s], req)]
          ELSE future
  /\ UNCHANGED <<pc, server, listener, armed, genState, clientId, everBound,
                 tokenRequests, tokenResponse, registrations, clientIdCache,
                 tokenCache, cacheAtStart, outcome>>
  /\ UNCHANGED <<authUrl, gateVars, configVars, libVars, routeVars>>

\* authenticate() resumes from `await waitForCallback()`: a rejection or a
\* state mismatch leaves through the finally block, otherwise the token
\* request is sent.
Resume(c) ==
  /\ pc[c] = "awaiting"
  /\ future[c].status \in {"resolved", "rejected"}
  /\ IF future[c].status = "rejected"
     THEN /\ pc' = [pc EXCEPT ![c] = "failed"]
          /\ outcome' = [outcome EXCEPT ![c] = [kind |-> "error", value |-> future[c].error]]
          /\ listener' = ListenerAfterFinally(server, listener)
          /\ server' = {}
          /\ UNCHANGED tokenRequests
     ELSE IF ~StateVerified(future[c].state, genState[c])
     THEN /\ pc' = [pc EXCEPT ![c] = "failed"]
          /\ outcome' = [outcome EXCEPT ![c] = [kind |-> "error", value |-> ErrCsrf]]
          /\ listener' = ListenerAfterFinally(server, listener)
          /\ server' = {}
          /\ UNCHANGED tokenRequests
     ELSE /\ tokenRequests' = tokenRequests \cup
               {[call |-> c, code |-> future[c].code,
                 codeVerifier |-> Verifier(c), clientId |-> clientId[c]]}
          /\ pc' = [pc EXCEPT ![c] = "exchanging"]
          /\ UNCHANGED <<outcome, listener, server>>
  /\ UNCHANGED <<armed, future, genState, clientId, everBound, callbackSeen,
                 lastStatus, tokenResponse, registrations, clientIdCache,
                 tokenCache, cacheAtStart>>
  /\ UNCHANGED <<authUrl, gateVars, configVars, libVars, routeVars>>

\* exchangeCodeForToken() answered: a non-ok response throws (through the
\* finally block), an ok one goes on to configManager.setAccessToken().
ExchangeResponse(c, response) ==
  /\ pc[c] = "exchanging"
  /\ tokenResponse' = [tokenResponse EXCEPT ![c] = response]
  /\ IF ExchangeFailed(response)
     THEN /\ pc' = [pc EXCEPT ![c] = "failed"]
          /\ outcome' = [outcome EXCEPT ![c] = [kind |-> "error", value |-> ErrExchange]]
          /\ listener' = ListenerAfterFinally(server, listener)
          /\ server' = {}
     ELSE /\ pc' = [pc EXCEPT ![c] = "caching"]
          /\ UNCHANGED <<outcome, listener, server>>
  /\ UNCHANGED <<armed, future, genState, clientId, everBound, callbackSeen,
                 lastStatus, tokenRequests, registrations, clientIdCache,
                 tokenCache, cacheAtStart>>
  /\ UNCHANGED <<authUrl, gateVars, configVars, libVars, routeVars>>

\* configManager.setAccessToken() settled: the token is stored and returned,
\* or the write throws (having stored the token or not); both leave through
\* the finally block.
CacheToken(c, ok, written) ==
  /\ pc[c] = "caching"
  /\ IF ok
     THEN /\ tokenCache' = tokenResponse[c].access_token
          /\ pc' = [pc EXCEPT ![c] = "done"]
          /\ outcome' = [outcome EXCEPT ![c] =
               [kind |-> "token", value |-> tokenResponse[c].access_token]]
     ELSE /\ tokenCache' = IF written THEN tokenResponse[c].access_token ELSE tokenCache
          /\ pc' = [pc EXCEPT ![c] = "failed"]
          /\ outcome' = [outcome EXCEPT ![c] = [kind |-> "error", value |-> ErrCacheWrite]]
  /\ listener' = ListenerAfterFinally(server, listener)
  /\ server' = {}
  /\ UNCHANGED <<armed, future, genState, clientId, everBound, callbackSeen,
                 lastStatus, tokenRequests, tokenResponse, registrations,
                 clientIdCache, cacheAtStart>>
  /\ UNCHANGED <<authUrl, gateVars, configVars, libVars, routeVars>>

\* ------------------------------------------------------------------------
\* buildServer / configureServer and the registered tool callback
\* ------------------------------------------------------------------------
\* configureServer(): every allowed tool of the catalog is registered with
\* the constrained keys filtered out of its schema.
Configured(context, toolsToRegister) ==
  [built |-> TRUE, context |-> context, catalog |-> toolsToRegister,
   registered |->
     {[name |-> tool.name,
       inputSchema |-> tool.inputSchema \
          getConstraintKeysToFilter(context.constraints, tool.inputSchema)] :
        tool \in RegisteredTools(context, toolsToRegister)}]

ConfigureServer(s, context, toolsToRegister) ==
  /\ ~mcpServer[s].built
  /\ mcpServer' = [mcpServer EXCEPT ![s] = Configured(context, toolsToRegister)]
  /\ UNCHANGED <<lastCall, embedded, oauthVars, libVars, routeVars>>

RegisteredNames(s) == {t.name : t \in mcpServer[s].registered}

\* use_sentry.handler: the internal server is built from the context of
\* the calling session over toolsForAgent, and the embedded agent is given
\* the tools that server lists (mcpClient.tools()).
UseSentryServer(context) == Configured(context, toolsForAgent)

\* The callback given to server.tool(): constraints are applied to the
\* params and tool.handler is executed with the result; the handler of
\* use_sentry builds its internal server.
CallTool(s, tool, params) ==
  /\ mcpServer[s].built
  /\ tool \in mcpServer[s].catalog
  /\ tool.name \in RegisteredNames(s)
  /\ lastCall' =
       [session |-> s, tool |-> tool.name, params |-> params,
        received |-> paramsWithConstraints(params,
           getConstraintParametersToInject(mcpServer[s].context.constraints,
                                           tool.inputSchema))]
  /\ embedded' =
       IF tool = use_sentry
       THEN [embedded EXCEPT ![s] = UseSentryServer(mcpServer[s].context)]
       ELSE embedded
  /\ UNCHANGED <<mcpServer, oauthVars, configVars, libVars, routeVars>>

\* authenticate() called when no earlier call is in flight.
AuthenticateInTurn(c) ==
  /\ NoCallInFlight
  /\ IsNextCall(c)
  /\ Authenticate(c)

\* One OAuthClient whose authenticate() calls do not overlap.
NextOAuth ==
  \/ \E c \in Calls : AuthenticateInTurn(c)
  \/ \E c \in Calls, ok \in BOOLEAN, id \in ClientIds : RegisterResponse(c, ok, id)
  \/ \E c \in Calls, st \in States : Listen(c, st)
  \/ \E c \in Calls, opened \in BOOLEAN : OpenBrowser(c, opened)
  \/ \E req \in Requests : HandleRequest(req)
  \/ \E c \in Calls : Resume(c)
  \/ \E c \in Calls, response \in TokenResponses : ExchangeResponse(c, response)
  \/ \E c \in Calls, ok \in BOOLEAN, written \in BOOLEAN : CacheToken(c, ok, written)

InitSpecOAuth == InitOAuth /\ InitGate /\ ConfigIdle /\ LibraryIdle /\ RouteIdle

SpecOAuth == InitSpecOAuth /\ [][NextOAuth]_vars

\* authenticate() called at any time, also while earlier calls are in flight.
AuthenticateOverlapping(c) ==
  /\ IsNextCall(c)
  /\ Authenticate(c)

\* One request of each class the handler distinguishes.
RequestClasses ==
  {[path |-> "/callback", code |-> "codeA", state |-> "s1", error |-> Null],
   [path |-> "/callback", code |-> Null, state |-> Null, error |-> "access_denied"],
   [path |-> "/callback", code |-> "codeA", state |-> Null, error |-> Null],
   [path |-> "/other", code |-> Null, state |-> Null, error |-> Null]}

\* Token endpoint responses: a failure and one token.
TokenResponseClasses == {NoResponse, [ok |-> TRUE, access_token |-> "tokA"]}

\* One OAuthClient whose authenticate() calls may overlap.
NextOverlap ==
  \/ \E c \in Calls : AuthenticateOverlapping(c)
  \/ \E c \in Calls, ok \in BOOLEAN, id \in ClientIds : RegisterResponse(c, ok, id)
  \/ \E c \in Calls, st \in States : Listen(c, st)
  \/ \E c \in Calls : OpenBrowser(c, TRUE)
  \/ \E req \in RequestClasses : HandleRequest(req)
  \/ \E c \in Calls : Resume(c)
  \/ \E c \in Calls, response \in TokenResponseClasses : ExchangeResponse(c, response)
  \/ \E c \in Calls, ok \in BOOLEAN : CacheToken(c, ok, FALSE)

InitSpecOverlap == InitOAuth /\ InitGate /\ ConfigIdle /\ LibraryIdle /\ RouteIdle

SpecOverlap == InitSpecOverlap /\ [][NextOverlap]_vars

\* authenticate() called while every earlier call has returned or is
\* awaiting its callback.
AuthenticateWhileAwaiting(c) ==
  /\ IsNextCall(c)
  /\ \A d \in Calls : d < c => (Finished(d) \/ pc[d] = "awaiting")
  /\ Authenticate(c)

\* One OAuthClient whose authenticate() is called again while a call awaits
\* its callback.
NextAwaiting ==
  \/ \E c \in Calls : AuthenticateWhileAwaiting(c)
  \/ \E c \in Calls, ok \in BOOLEAN, id \in ClientIds : RegisterResponse(c, ok, id)
  \/ \E c \in Calls, st \in States : Listen(c, st)
  \/ \E c \in Calls : OpenBrowser(c, TRUE)
  \/ \E req \in RequestClasses : HandleRequest(req)
  \/ \E c \in Calls : Resume(c)
  \/ \E c \in Calls, response \in TokenResponseClasses : ExchangeResponse(c, response)
  \/ \E c \in Calls, ok \in BOOLEAN : CacheToken(c, ok, FALSE)

InitSpecAwaiting == InitOAuth /\ InitGate /\ ConfigIdle /\ LibraryIdle /\ RouteIdle

SpecAwaiting == InitSpecAwaiting /\ [][NextAwaiting]_vars

\* Variant: the stored token is never used.
TokenCached_Never(cachedToken) == FALSE

\* if (cachedToken)
TokenCached(cachedToken) == cachedToken # Null

\* getAccessToken(): the token stored for the host is returned, or
\* authenticate() is run.
GetAccessToken(c) ==
  /\ pc[c] = "idle"
  /\ IF TokenCached(tokenCache)
     THEN /\ pc' = [pc EXCEPT ![c] = "done"]
          /\ outcome' = [outcome EXCEPT ![c] = [kind |-> "token", value |-> tokenCache]]
          /\ UNCHANGED <<server, listener, armed, future, genState, clientId,
                         everBound, callbackSeen, lastStatus, tokenRequests,
                         tokenResponse, registrations, clientIdCache,
                         tokenCache, cacheAtStart, authUrl>>
          /\ UNCHANGED <<gateVars, configVars, libVars, routeVars>>
     ELSE Authenticate(c)

\* getAccessToken() called when no earlier call is in flight.
GetAccessTokenInTurn(c) ==
  /\ NoCallInFlight
  /\ IsNextCall(c)
  /\ GetAccessToken(c)

\* One OAuthClient used through getAccessToken() only.
NextToken ==
  \/ \E c \in Calls : GetAccessTokenInTurn(c)
  \/ \E c \in Calls, ok \in BOOLEAN, id \in ClientIds : RegisterResponse(c, ok, id)
  \/ \E c \in Calls, st \in States : Listen(c, st)
  \/ \E c \in Calls, opened \in BOOLEAN : OpenBrowser(c, opened)
  \/ \E req \in RequestClasses : HandleRequest(req)
  \/ \E c \in Calls : Resume(c)
  \/ \E c \in Calls, response \in TokenResponses : ExchangeResponse(c, response)
  \/ \E c \in Calls, ok \in BOOLEAN, written \in BOOLEAN : CacheToken(c, ok, written)

InitSpecToken == InitOAuth /\ InitGate /\ ConfigIdle /\ LibraryIdle /\ RouteIdle

SpecToken == InitSpecToken /\ [][NextToken]_vars

\* client_id values the registration endpoint issues.
IssuedClientIds == {"client1", "client2"}

\* One OAuthClient whose registration endpoint issues differing ids.
NextRegister ==
  \/ \E c \in Calls : AuthenticateInTurn(c)
  \/ \E c \in Calls, ok \in BOOLEAN, id \in IssuedClientIds : RegisterResponse(c, ok, id)
  \/ \E c \in Calls, st \in States : Listen(c, st)
  \/ \E c \in Calls, opened \in BOOLEAN : OpenBrowser(c, opened)
  \/ \E req \in RequestClasses : HandleRequest(req)
  \/ \E c \in Calls : Resume(c)
  \/ \E c \in Calls, response \in TokenResponseClasses : ExchangeResponse(c, response)
  \/ \E c \in Calls, ok \in BOOLEAN, written \in BOOLEAN : CacheToken(c, ok, written)

InitSpecRegister == InitOAuth /\ InitGate /\ ConfigIdle /\ LibraryIdle /\ RouteIdle

SpecRegister == InitSpecRegister /\ [][NextRegister]_vars

\* One OAuthClient on a machine where open() always fails.
NextBrowser ==
  \/ \E c \in Calls : AuthenticateInTurn(c)
  \/ \E c \in Calls, ok \in BOOLEAN, id \in ClientIds : RegisterResponse(c, ok, id)
  \/ \E c \in Calls, st \in States : Listen(c, st)
  \/ \E c \in Calls : OpenBrowser(c, FALSE)
  \/ \E req \in RequestClasses : HandleRequest(req)
  \/ \E c \in Calls : Resume(c)
  \/ \E c \in Calls, response \in TokenResponseClasses : ExchangeResponse(c, response)
  \/ \E c \in Calls, ok \in BOOLEAN, written \in BOOLEAN : CacheToken(c, ok, written)

InitSpecBrowser == InitOAuth /\ InitGate /\ ConfigIdle /\ LibraryIdle /\ RouteIdle

SpecBrowser == InitSpecBrowser /\ [][NextBrowser]_vars

\* ------------------------------------------------------------------------
\* Inputs of the gate
\* ------------------------------------------------------------------------
\* Granted skill sets tried: none, each single skill, each tool's own
\* requirement, the default-enabled skills and all skills.
SkillGrants ==
  {Undefined} \cup
  {Defined(S) : S \in {{}} \cup {{k} : k \in ALL_SKILLS}
                       \cup {Range(t.requiredSkills) : t \in tools}
                       \cup {DEFAULT_SKILLS, ALL_SKILLS}}

\* Granted scope sets tried: none, each single scope, each tool's own
\* requirement, the default scopes and all scopes.
ScopeGrants ==
  {Undefined} \cup
  {Defined(S) : S \in {{}} \cup {{k} : k \in ALL_SCOPES}
                       \cup {Range(t.requiredScopes) : t \in tools}
                       \cup {DEFAULT_SCOPES, ALL_SCOPES}}

\* Session constraints tried.
ConstraintSets ==
  [organizationSlug : {Null, "c"}, projectSlug : {Null, "p"}, regionUrl : {Null}]

\* Argument keys a caller supplies.
CallKeys == CONSTRAINT_PARAMETER_KEYS \cup {"query"}

\* Argument bags a caller sends to a tool.
CallParams(tool) ==
  UNION {[K -> {"explicit"}] : K \in SUBSET (tool.inputSchema \cap CallKeys)}

\* Two sessions over the default catalog, each built once from an
\* arbitrary grant.
\* buildServer(): a server for one session, configured from its context.
buildServer(s, context, customTools) ==
  /\ ConfigureServer(s, context, customTools)
  /\ UNCHANGED configVars

NextGate ==
  \E s \in Sessions, gs \in SkillGrants, gc \in ScopeGrants :
    buildServer(s, [grantedSkills |-> gs, grantedScopes |-> gc,
                    constraints |-> NoConstraints], tools)

InitSpecGate == OAuthIdle /\ InitGate /\ ConfigIdle /\ LibraryIdle /\ RouteIdle

SpecGate == InitSpecGate /\ [][NextGate]_vars

\* One session with any grant and constraints, over the default catalog
\* or that of agent mode, and calls of its use_sentry tool.
NextAgent ==
  \/ \E gs \in SkillGrants, gc \in ScopeGrants, cons \in ConstraintSets,
        catalog \in {tools, agentTools} :
       buildServer("A", [grantedSkills |-> gs, grantedScopes |-> gc,
                         constraints |-> cons], catalog)
  \/ \E params \in CallParams(use_sentry) : CallTool("A", use_sentry, params)

InitSpecAgent == OAuthIdle /\ InitGate /\ ConfigIdle /\ LibraryIdle /\ RouteIdle

SpecAgent == InitSpecAgent /\ [][NextAgent]_vars

\* One skills-mode session with constraints, and calls of its tools.
NextCall ==
  \/ \E gs \in SkillGrants \ {Undefined}, cons \in ConstraintSets :
       buildServer("A", [grantedSkills |-> gs, grantedScopes |-> Undefined,
                         constraints |-> cons], tools)
  \/ \E tool \in tools : \E params \in CallParams(tool) : CallTool("A", tool, params)

InitSpecCall == OAuthIdle /\ InitGate /\ ConfigIdle /\ LibraryIdle /\ RouteIdle

SpecCall == InitSpecCall /\ [][NextCall]_vars

\* ------------------------------------------------------------------------
\* index.ts: the stdio entry point
\* ------------------------------------------------------------------------
\* const env = parseEnv(process.env)
ParseEnv ==
  /\ cfgPc = "start"
  /\ env' = parseEnv(processEnv)
  /\ cfgPc' = "parsed"
  /\ UNCHANGED <<cli, processEnv, merged, cfg, gateVars, oauthVars, libVars, routeVars>>

\* Variant: the merged base URL falls back to OPENAI_BASE_URL.
Merge_EnvBaseUrl ==
  /\ cfgPc = "parsed"
  /\ merged' = [merge(cli, env) EXCEPT
                  !.openaiBaseUrl =
                    Coalesce(cli.openaiBaseUrl, processEnv.OPENAI_BASE_URL)]
  /\ cfgPc' = "merged"
  /\ UNCHANGED <<cli, processEnv, env, cfg, gateVars, oauthVars, libVars, routeVars>>

\* merge(cli, env)
Merge ==
  /\ cfgPc = "parsed"
  /\ merged' = merge(cli, env)
  /\ cfgPc' = "merged"
  /\ UNCHANGED <<cli, processEnv, env, cfg, gateVars, oauthVars, libVars, routeVars>>

\* finalize(merged); an error makes index.ts die.
Finalize ==
  /\ cfgPc = "merged"
  /\ cfg' = finalize(merged)
  /\ cfgPc' = IF finalize(merged).error # Null THEN "died" ELSE "resolved"
  /\ UNCHANGED <<cli, processEnv, env, merged, gateVars, oauthVars, libVars, routeVars>>

\* The context is built from cfg and buildServer() is called with the agent
\* catalog when --agent was given.
BuildServer ==
  /\ cfgPc = "resolved"
  /\ ConfigureServer("A",
        [grantedSkills |-> cfg.finalSkills,
         grantedScopes |-> cfg.finalScopes,
         constraints |-> [organizationSlug |-> cfg.organizationSlug,
                          projectSlug |-> cfg.projectSlug,
                          regionUrl |-> Null]],
        IF cli.agent THEN agentTools ELSE tools)
  /\ cfgPc' = "serving"
  /\ UNCHANGED <<cli, processEnv, env, merged, cfg>>

NextConfig == ParseEnv \/ Merge \/ Finalize \/ BuildServer

InitSpecConfig == OAuthIdle /\ InitGate /\ InitConfig /\ LibraryIdle /\ RouteIdle

SpecConfig == InitSpecConfig /\ [][NextConfig]_vars

\* ------------------------------------------------------------------------
\* Exported functions called directly
\* ------------------------------------------------------------------------
MaxArrayLen == 2

\* The trimmed texts parseSkills loops over: the pieces of a string, the
\* elements of an array with "" for an element that is not a string, none
\* for any other input.
SkillTexts(input) ==
  CASE input.kind = "string" ->
         IF input.value = <<>> THEN <<>> ELSE TrimAll(Split(input.value))
    [] input.kind = "array" ->
         TrimAll([i \in 1..Len(input.value) |->
                    IF input.value[i].isString THEN input.value[i].text ELSE <<>>])
    [] OTHER -> <<>>

\* skills.ts parseSkills, for an input of any type.
parseSkillsInput(input) ==
  [valid |-> Range(SelectSeq(SkillTexts(input), isValidSkill)),
   invalid |-> SelectSeq(SkillTexts(input), LAMBDA t : ~isValidSkill(t) /\ t # "")]

\* Elements of an array handed to parseSkills.
SkillElements ==
  {[isString |-> TRUE, text |-> <<"inspect">>],
   [isString |-> TRUE, text |-> <<" ", "docs", " ">>],
   [isString |-> TRUE, text |-> <<"seer", ",", "triage">>],
   [isString |-> TRUE, text |-> <<"constructor">>],
   [isString |-> TRUE, text |-> <<"bogus">>],
   [isString |-> TRUE, text |-> <<>>],
   [isString |-> FALSE, text |-> <<>>]}

\* Inputs of parseSkills: strings, arrays and null.
SkillInputs ==
  {[kind |-> "string", value |-> v] :
     v \in SkillStrings \cup {<<"project-management", ",", "valueOf", ",", "nope">>}}
  \cup {[kind |-> "array", value |-> a] :
          a \in UNION {[1..n -> SkillElements] : n \in 0..MaxArrayLen}}
  \cup {[kind |-> "null", value |-> <<>>]}

MaxRequired == 2

MaxScopeSet == 2

\* Lists of at most MaxRequired names.
ListsOf(names) == UNION {[1..n -> names] : n \in 0..MaxRequired}

\* Sets of at most MaxScopeSet scopes.
ScopeSets == {S \in SUBSET ALL_SCOPES : Cardinality(S) <= MaxScopeSet}

\* Arguments of hasRequiredSkills: a Set of skills or undefined, and a tool's
\* requiredSkills.
SkillChecks ==
  [granted : {Undefined} \cup {Defined(S) : S \in SUBSET ALL_SKILLS},
   required : ListsOf(ALL_SKILLS)]

\* Arguments of hasRequiredScopes: a Set of scopes and a tool's requiredScopes.
ScopeChecks ==
  [granted : {Defined(S) : S \in ScopeSets},
   required : ListsOf({"event:read", "event:write", "event:admin",
                       "project:releases"})]

\* Arguments of two calls of expandScopes: a set and a set it is part of.
ScopeExpansions ==
  UNION {{[granted |-> Defined(S), within |-> Defined(T)] : S \in SUBSET T} :
           T \in ScopeSets}

\* The resources with read, write and admin scopes.
Resources == {"org", "project", "team", "member", "event"}

ScopeOf(resource, level) == resource \o ":" \o level

\* The arguments tried for a direct call of the exported function fn.
Probes(fn) ==
  CASE fn = "parseSkills" -> SkillInputs
    [] fn = "expandScopes" -> ScopeExpansions
    [] fn = "expandScopes levels" -> {[resource |-> r] : r \in Resources}
    [] fn = "hasRequiredSkills" -> SkillChecks
    [] fn = "hasRequiredScopes" -> ScopeChecks

InitLibrary ==
  /\ \E fn \in {"parseSkills", "expandScopes", "expandScopes levels",
                 "hasRequiredSkills", "hasRequiredScopes"} :
       \E i \in Probes(fn) : probe = [fn |-> fn, input |-> i]
  /\ probeResult = <<>>

\* parseSkills(input) is called and returns.
ParseSkills ==
  /\ probe.fn = "parseSkills"
  /\ probeResult = <<>>
  /\ probeResult' = <<parseSkillsInput(probe.input)>>
  /\ UNCHANGED <<probe, oauthVars, gateVars, configVars, routeVars>>

\* hasRequiredSkills(grantedSkills, requiredSkills) is called and returns.
HasRequiredSkills ==
  /\ probe.fn = "hasRequiredSkills"
  /\ probeResult = <<>>
  /\ probeResult' = <<hasRequiredSkills(probe.input.granted, probe.input.required)>>
  /\ UNCHANGED <<probe, oauthVars, gateVars, configVars, routeVars>>

\* hasRequiredScopes(grantedScopes, requiredScopes) is called and returns.
HasRequiredScopes ==
  /\ probe.fn = "hasRequiredScopes"
  /\ probeResult = <<>>
  /\ probeResult' = <<hasRequiredScopes(probe.input.granted.value, probe.input.required)>>
  /\ UNCHANGED <<probe, oauthVars, gateVars, configVars, routeVars>>

\* expandScopes is called on a set, on its own result and on a wider set.
ExpandScopes ==
  /\ probe.fn = "expandScopes"
  /\ probeResult = <<>>
  /\ probeResult' =
       <<[first |-> expandScopes(probe.input.granted.value),
          again |-> expandScopes(expandScopes(probe.input.granted.value)),
          wider |-> expandScopes(probe.input.within.value)]>>
  /\ UNCHANGED <<probe, oauthVars, gateVars, configVars, routeVars>>

\* expandScopes is called on the read, the write and the admin scope of a
\* resource.
ExpandLevels ==
  /\ probe.fn = "expandScopes levels"
  /\ probeResult = <<>>
  /\ probeResult' =
       <<[read |-> expandScopes({ScopeOf(probe.input.resource, "read")}),
          write |-> expandScopes({ScopeOf(probe.input.resource, "write")}),
          admin |-> expandScopes({ScopeOf(probe.input.resource, "admin")})]>>
  /\ UNCHANGED <<probe, oauthVars, gateVars, configVars, routeVars>>

NextLibrary ==
  \/ ParseSkills
  \/ HasRequiredSkills
  \/ HasRequiredScopes
  \/ ExpandScopes
  \/ ExpandLevels

InitSpecLibrary == OAuthIdle /\ InitGate /\ ConfigIdle /\ InitLibrary /\ RouteIdle

SpecLibrary == InitSpecLibrary /\ [][NextLibrary]_vars

\* ------------------------------------------------------------------------
\* mcp-cloudflare oauth/routes: GET /oauth/callback
\* ------------------------------------------------------------------------
\* Redirect URIs a downstream client sends.
CallbackUris == {"https://app.example/cb", "https://evil.example/cb"}

\* new URL(value) does not throw.
UrlParses(value) == value \in CallbackUris

\* What OAUTH_PROVIDER.lookupClient does: it throws, finds no client, or
\* returns a client with its registered redirectUris.
Lookups ==
  {[throws |-> TRUE, found |-> FALSE, redirectUris |-> {}],
   NoClient,
   [throws |-> FALSE, found |-> TRUE, redirectUris |-> {}],
   [throws |-> FALSE, found |-> TRUE, redirectUris |-> {"https://app.example/cb"}]}

\* A callback request: whether its signed state verifies, the request info
\* the state carries, and what the collaborators of the route answer for it
\* (validateResourceParameter, clientIdAlreadyApproved, lookupClient).
CallbackRequests ==
  [stateVerifies : BOOLEAN,
   clientId : {Null, "client1"},
   redirectUri : {Null, "", "not a url"} \cup CallbackUris,
   resource : {Null, "https://mcp.example/mcp"},
   resourceValid : BOOLEAN,
   isApproved : BOOLEAN,
   client : Lookups]

\* [payload, errResponse] of exchangeCodeForAccessToken.
ExchangeResults ==
  {[ok |-> TRUE, status |-> 200],
   [ok |-> FALSE, status |-> 400],
   [ok |-> FALSE, status |-> 500]}

InitCallback ==
  /\ callbackReq \in CallbackRequests
  /\ callback = [pc |-> "verifyAndParseState", calls |-> <<>>, status |-> 0, text |-> ""]

\* return c.text(text, status)
Responded(calls, status, text) ==
  [pc |-> "responded", calls |-> calls, status |-> status, text |-> text]

\* The route moves on to its next statement.
Continued(calls, next) ==
  [pc |-> next, calls |-> calls, status |-> 0, text |-> ""]

\* Variant: any client that exists may use any redirect URI.
uriIsAllowed_AnyUri(client, redirectUri) == client.found

\* Array.isArray(client?.redirectUris) && client.redirectUris.includes(redirectUri)
uriIsAllowed(client, redirectUri) ==
  client.found /\ redirectUri \in client.redirectUris

\* try { parsedState = await verifyAndParseState(...) } catch { 400 }
VerifyState ==
  /\ callback.pc = "verifyAndParseState"
  /\ LET calls == Append(callback.calls, "verifyAndParseState")
     IN callback' =
          IF callbackReq.stateVerifies
          THEN Continued(calls, "clientId")
          ELSE Responded(calls, 400, "Invalid state")
  /\ UNCHANGED <<callbackReq, oauthVars, gateVars, configVars, libVars>>

\* if (!oauthReqInfo.clientId)
CheckClientId ==
  /\ callback.pc = "clientId"
  /\ callback' =
       IF ~Truthy(callbackReq.clientId)
       THEN Responded(callback.calls, 400, "Invalid state")
       ELSE Continued(callback.calls, "redirectUri")
  /\ UNCHANGED <<callbackReq, oauthVars, gateVars, configVars, libVars>>

\* if (!oauthReqInfo.redirectUri) ...; try { new URL(redirectUri) } catch ...
CheckRedirectUri ==
  /\ callback.pc = "redirectUri"
  /\ callback' =
       IF ~Truthy(callbackReq.redirectUri)
       THEN Responded(callback.calls, 400,
                      "Authorization failed: No redirect URL provided")
       ELSE IF ~UrlParses(callbackReq.redirectUri)
            THEN Responded(callback.calls, 400,
                           "Authorization failed: Invalid redirect URL")
            ELSE Continued(callback.calls, "resource")
  /\ UNCHANGED <<callbackReq, oauthVars, gateVars, configVars, libVars>>

\* if (resourceFromState && !validateResourceParameter(...))
CheckResource ==
  /\ callback.pc = "resource"
  /\ callback' =
       IF Truthy(callbackReq.resource) /\ ~callbackReq.resourceValid
       THEN Responded(callback.calls, 400,
                      "Authorization failed: Invalid resource parameter")
       ELSE Continued(callback.calls, "clientIdAlreadyApproved")
  /\ UNCHANGED <<callbackReq, oauthVars, gateVars, configVars, libVars>>

\* const isApproved = await clientIdAlreadyApproved(...)
CheckApproved ==
  /\ callback.pc = "clientIdAlreadyApproved"
  /\ LET calls == Append(callback.calls, "clientIdAlreadyApproved")
     IN callback' =
          IF ~callbackReq.isApproved
          THEN Responded(calls, 403, "Authorization failed: Client not approved")
          ELSE Continued(calls, "lookupClient")
  /\ UNCHANGED <<callbackReq, oauthVars, gateVars, configVars, libVars>>

\* try { client = await lookupClient(clientId); if (!uriIsAllowed) 400 }
\* catch { 400 }
LookupClient ==
  /\ callback.pc = "lookupClient"
  /\ LET calls == Append(callback.calls, "lookupClient")
     IN callback' =
          IF callbackReq.client.throws
          THEN Responded(calls, 400, "Authorization failed: Invalid redirect URL")
          ELSE IF ~uriIsAllowed(callbackReq.client, callbackReq.redirectUri)
               THEN Responded(calls, 400,
                              "Authorization failed: Invalid redirect URL")
               ELSE Continued(calls, "exchangeCodeForAccessToken")
  /\ UNCHANGED <<callbackReq, oauthVars, gateVars, configVars, libVars>>

\* const [payload, errResponse] = await exchangeCodeForAccessToken(...);
\* if (errResponse) return errResponse
ExchangeCode(result) ==
  /\ callback.pc = "exchangeCodeForAccessToken"
  /\ LET calls == Append(callback.calls, "exchangeCodeForAccessToken")
     IN callback' =
          IF ~result.ok
          THEN Responded(calls, result.status, "errResponse")
          ELSE Continued(calls, "completeAuthorization")
  /\ UNCHANGED <<callbackReq, oauthVars, gateVars, configVars, libVars>>

\* const { redirectTo } = await completeAuthorization(...);
\* return c.redirect(redirectTo)
CompleteAuthorization ==
  /\ callback.pc = "completeAuthorization"
  /\ callback' = Responded(Append(callback.calls, "completeAuthorization"),
                           302, "redirectTo")
  /\ UNCHANGED <<callbackReq, oauthVars, gateVars, configVars, libVars>>

NextCallback ==
  \/ VerifyState
  \/ CheckClientId
  \/ CheckRedirectUri
  \/ CheckResource
  \/ CheckApproved
  \/ LookupClient
  \/ \E result \in ExchangeResults : ExchangeCode(result)
  \/ CompleteAuthorization

InitSpecCallback == OAuthIdle /\ InitGate /\ ConfigIdle /\ LibraryIdle /\ InitCallback

SpecCallback == InitSpecCallback /\ [][NextCallback]_vars

\* ------------------------------------------------------------------------
\* Properties
\* ------------------------------------------------------------------------
StateMismatch(c) ==
  future[c].status = "resolved" /\ future[c].state # genState[c]

\* C1: a callback whose state differs from the generated state makes
\* authenticate() reject with the CSRF error, and no token-exchange request
\* is sent for that flow.
C1_CsrfRejectedBeforeExchange ==
  \A c \in Calls :
    StateMismatch(c) =>
      /\ pc[c] \in {"awaiting", "failed"}
      /\ pc[c] = "failed" => outcome[c] = [kind |-> "error", value |-> ErrCsrf]
      /\ \A r \in tokenRequests : r.call # c

C1_Witness ==
  \E c \in Calls :
    /\ StateMismatch(c)
    /\ pc[c] = "failed"
    /\ outcome[c].value = ErrCsrf

C3_TokenCachedOnlyOnSuccess ==
  [][/\ tokenCache' # tokenCache =>
          \E c \in Calls :
            /\ pc[c] = "caching" /\ pc'[c] \in {"done", "failed"}
            /\ future[c].status = "resolved"
            /\ future[c].state = genState[c]
            /\ tokenResponse[c].ok
            /\ tokenCache' = tokenResponse[c].access_token
     /\ \A c \in Calls :
          (/\ pc[c] # "failed" /\ pc'[c] = "failed"
           /\ outcome'[c].value \in {ErrRegistration, ErrOAuth, ErrMissing,
                                     ErrCsrf, ErrExchange})
          => tokenCache' = cacheAtStart[c]]_vars

C3_Witness ==
  \E c, d \in Calls :
    /\ pc[c] = "done" /\ outcome[c].value \in Tokens
    /\ pc[d] = "failed" /\ outcome[d].value = ErrExchange
    /\ cacheAtStart[d] = outcome[c].value
    /\ tokenCache = outcome[c].value

\* C4: the first request the bound listener receives on the callback path
\* settles the pending callback future, whenever it arrives.
C4_FirstCallbackSettles ==
  \A c \in Calls :
    callbackSeen[c] => future[c].status \in {"resolved", "rejected"}

C6_SkillsModeAnyOf ==
  \A s \in Sessions :
    (mcpServer[s].built /\ mcpServer[s].context.grantedSkills.present) =>
      \A tool \in mcpServer[s].catalog :
        tool.name \in RegisteredNames(s) <=>
          /\ Range(tool.requiredSkills) # {}
          /\ Range(tool.requiredSkills)
               \cap mcpServer[s].context.grantedSkills.value # {}

C6_Witness ==
  \E s \in Sessions :
    /\ mcpServer[s].built
    /\ mcpServer[s].context.grantedSkills = Defined({"triage"})
    /\ "find_teams" \in RegisteredNames(s)
    /\ "create_team" \notin RegisteredNames(s)
    /\ "use_sentry" \notin RegisteredNames(s)

\* C7: in scopes mode a tool is registered iff all of its requiredScopes are
\* in the expansion of the granted scopes; a tool with no requiredScopes is
\* registered for every granted set, the empty one included.
C7_ScopesModeAllOf ==
  \A s \in Sessions :
    (/\ mcpServer[s].built
     /\ ~mcpServer[s].context.grantedSkills.present
     /\ mcpServer[s].context.grantedScopes.present) =>
      \A tool \in mcpServer[s].catalog :
        tool.name \in RegisteredNames(s) <=>
          Range(tool.requiredScopes)
            \subseteq expandScopes(mcpServer[s].context.grantedScopes.value)

C7_Witness ==
  \E s, t \in Sessions :
    /\ mcpServer[s].built /\ mcpServer[t].built
    /\ ~mcpServer[s].context.grantedSkills.present
    /\ ~mcpServer[t].context.grantedSkills.present
    /\ mcpServer[s].context.grantedScopes = Defined({})
    /\ "whoami" \in RegisteredNames(s)
    /\ "find_teams" \notin RegisteredNames(s)
    /\ mcpServer[t].context.grantedScopes = Defined({"team:write"})
    /\ "find_teams" \in RegisteredNames(t)
    /\ "create_project" \notin RegisteredNames(t)

\* C8: the handler receives every argument the caller supplied unchanged,
\* also when a session constraint exists for that key.
C8_ExplicitParamsPreserved ==
  lastCall # NoCall =>
    \A k \in DOMAIN lastCall.params : lastCall.received[k] = lastCall.params[k]

\* C9: a stdio session started with --agent exposes exactly one tool,
\* use_sentry.
C9_AgentModeExposesUseSentry ==
  (cfgPc = "serving" /\ cli.agent) => RegisteredNames("A") = {"use_sentry"}

\* C10: when the command line gives --host or --url, the resolved sentryHost
\* comes from the command-line value, never from SENTRY_HOST / SENTRY_URL.
C10_CliHostWins ==
  (/\ cfgPc \in {"resolved", "serving"}
   /\ cfg.error = Null
   /\ (cli.host # Null \/ cli.url # Null)) =>
    cfg.sentryHost = IF cli.url # Null THEN UrlHostname(cli.url) ELSE cli.host

\* C11: an authenticate() that tries to bind while another call's listener
\* holds the callback port leaves the bind with the listener's bind error,
\* without ever having a listener or a pending callback, and the bind is
\* never left waiting: its completion is always enabled.
C11_SecondBindFailsFast ==
  /\ [][\A c \in Calls :
         (pc[c] = "binding" /\ listener # {} /\ pc'[c] # "binding") =>
           /\ pc'[c] = "failed"
           /\ outcome'[c] = [kind |-> "error", value |-> ErrBind]
           /\ ~everBound'[c]
           /\ future'[c] = NoFuture]_vars
  /\ [](\A c \in Calls :
         pc[c] = "binding" => ENABLED (\E st \in States : Listen(c, st)))

C11_Witness ==
  \E c, d \in Calls :
    /\ c # d
    /\ listener = {c} /\ pc[c] = "awaiting"
    /\ pc[d] = "failed" /\ outcome[d].value = ErrBind
    /\ ~everBound[d]

\* C12: within one authenticate() flow the callback promise is settled at
\* most once: once settled, no later request changes it, at most one
\* token-exchange request is sent for the flow, and it carries the code of
\* the settling callback.
C12_SettledAtMostOnce ==
  /\ [][\A c \in Calls :
         future[c].status \in {"resolved", "rejected"} => future'[c] = future[c]]_vars
  /\ [](\A c \in Calls :
         /\ Cardinality({r \in tokenRequests : r.call = c}) <= 1
         /\ \A r \in tokenRequests :
              r.call = c => (future[c].status = "resolved" /\ r.code = future[c].code))

C12_Witness ==
  \E c \in Calls :
    /\ listener = {c}
    /\ pc[c] = "exchanging"
    /\ future[c].status = "resolved"
    /\ lastStatus = <<400>>
    /\ \E r \in tokenRequests : r.call = c /\ r.code = future[c].code

\* The listener of call c is bound and the promise of waitForCallback() is
\* pending; a step in which it then handles request req.
AwaitingCallback(c) ==
  /\ listener = {c}
  /\ armed[c]
  /\ future[c].status = "pending"

HandledWhilePending(req, c) == AwaitingCallback(c) /\ HandleRequest(req)

\* What such a step does with a request on the callback path.
CallbackPathClassified(req, c) ==
  /\ req.error # Null =>
       (lastStatus' = <<400>> /\ future'[c].status = "rejected")
  /\ (req.error = Null /\ req.code # Null /\ req.state # Null) =>
       /\ lastStatus' = <<200>>
       /\ future'[c].status = "resolved"
       /\ future'[c].code = req.code
       /\ future'[c].state = req.state
  /\ (req.error = Null /\ (req.code = Null \/ req.state = Null)) =>
       (lastStatus' = <<400>> /\ future'[c].status = "rejected")

C14_CachedTokenShortCircuits ==
  /\ [][\A c \in Calls :
         (pc[c] = "idle" /\ pc'[c] # "idle") =>
           IF tokenCache # Null
           THEN /\ pc'[c] = "done"
                /\ outcome'[c] = [kind |-> "token", value |-> tokenCache]
                /\ UNCHANGED <<server, listener, registrations, tokenRequests,
                               authUrl, everBound, clientIdCache, tokenCache>>
           ELSE pc'[c] \in {"registering", "binding"}]_vars
  /\ [](\A c \in Calls :
         (pc[c] = "done" /\ everBound[c]) =>
           /\ tokenResponse[c].ok
           /\ outcome[c] = [kind |-> "token", value |-> tokenResponse[c].access_token])

C14_Witness ==
  \E c, d \in Calls :
    /\ pc[c] = "done" /\ everBound[c]
    /\ pc[d] = "done" /\ ~everBound[d]
    /\ registrations[d] = 0
    /\ outcome[d].value = tokenCache

C16_NoGrantNoTools ==
  \A s \in Sessions :
    (/\ mcpServer[s].built
     /\ ~mcpServer[s].context.grantedSkills.present
     /\ ~mcpServer[s].context.grantedScopes.present)
    => mcpServer[s].registered = {}

C16_Witness ==
  \E s \in Sessions :
    /\ mcpServer[s].built
    /\ mcpServer[s].context.grantedSkills = Undefined
    /\ mcpServer[s].context.grantedScopes = Undefined
    /\ \E tool \in mcpServer[s].catalog : Len(tool.requiredScopes) = 0
    /\ mcpServer[s].registered = {}

ActedScopes(input) ==
  IF input.allScopes THEN Unset
  ELSE IF TruthyList(input.scopes) THEN input.scopes
  ELSE IF TruthyList(input.addScopes) THEN input.addScopes
  ELSE Unset

\* The tokens of a list string, trimmed, empty ones dropped.
ListTokens(value) == SelectSeq(TrimAll(Split(value)), LAMBDA t : t # "")

\* The tokens of a list string that are not among the known names, in input
\* order.
UnknownTokens(value, known) == SelectSeq(ListTokens(value), LAMBDA t : t \notin known)

\* finalize reached the scope resolution / the skills resolution.
ReachedScopes(input) == Truthy(input.accessToken) /\ ResolveHost(input) # Null

ReachedSkills(input) == ReachedScopes(input) /\ ResolveScopes(input).error = Null

\* C18: when the scopes, addScopes or skills value finalize parses holds a
\* token that is not a known scope / one of the five skills, finalize fails
\* with the invalid-tokens error listing exactly the unknown tokens in input
\* order; when it holds no unknown token and no known one either, finalize
\* fails with the 'No valid ... found' error.
C18_InvalidTokensEnumerated ==
  (cfgPc \in {"died", "resolved", "serving"}) =>
    /\ (ReachedScopes(merged) /\ ActedScopes(merged).present) =>
         LET unknown == UnknownTokens(ActedScopes(merged).value, ALL_SCOPES) IN
         /\ unknown # <<>> =>
              cfg.error = "Invalid scopes provided" /\ cfg.invalid = unknown
         /\ (unknown = <<>> /\ ListTokens(ActedScopes(merged).value) = <<>>) =>
              cfg.error \in {"Invalid scopes provided. No valid scopes found.",
                             "Invalid additional scopes provided. No valid scopes found."}
    /\ (ReachedSkills(merged) /\ TruthyList(merged.skills)) =>
         LET unknown == UnknownTokens(merged.skills.value, ALL_SKILLS) IN
         /\ unknown # <<>> =>
              cfg.error = "Invalid skills provided" /\ cfg.invalid = unknown
         /\ (unknown = <<>> /\ ListTokens(merged.skills.value) = <<>>) =>
              cfg.error = "Invalid skills provided. No valid skills found."

\* C19: every config finalize returns has a non-empty finalSkills: all five
\* skills when no skills value is supplied, and exactly the tokens of the
\* supplied value that are skills, nothing added, when one is.
C19_FinalSkillsResolved ==
  (cfgPc \in {"resolved", "serving"}) =>
    /\ cfg.finalSkills.present
    /\ cfg.finalSkills.value # {}
    /\ cfg.finalSkills.value =
         IF merged.skills.present
         THEN Range(ListTokens(merged.skills.value)) \cap ALL_SKILLS
         ELSE ALL_SKILLS

ResolvedIn(e) == finalize(merge(cli, parseEnv(e)))

\* C21: the resolved OpenAI base URL depends on the command line only: every
\* environment in which the same command line resolves gives the same
\* openaiBaseUrl, and without --openai-base-url it is undefined.
C21_BaseUrlFromCliOnly ==
  (cfgPc = "resolved") =>
    /\ \A e \in ProcessEnvs :
         LET resolved == ResolvedIn(e)
         IN resolved.error = Null => resolved.openaiBaseUrl = cfg.openaiBaseUrl
    /\ cli.openaiBaseUrl = Null => cfg.openaiBaseUrl = Null

\* OPENAI_BASE_URL is set in the environment and the flag on the command
\* line: the flag's value is resolved.
C21_Witness ==
  /\ cfgPc = "resolved"
  /\ processEnv.OPENAI_BASE_URL = "https://evil.example/v1"
  /\ cli.openaiBaseUrl = "https://proxy.example/v1"
  /\ cfg.openaiBaseUrl = "https://proxy.example/v1"

\* C22: whatever parseSkills is given, every member of the valid set it
\* returns is one of the five registered skills, and every other non-empty
\* trimmed token is in invalid, in input order.
C22_ValidSkillsAreRegistered ==
  (probe.fn = "parseSkills" /\ probeResult # <<>>) =>
    /\ probeResult[1].valid \subseteq ALL_SKILLS
    /\ probeResult[1].invalid =
         SelectSeq(SkillTexts(probe.input),
                   LAMBDA t : t # "" /\ t \notin ALL_SKILLS)

\* C23: hasRequiredSkills is true exactly when the granted set is defined,
\* the required list is non-empty and one required skill is granted; it is
\* false for an empty list and for an undefined set.  hasRequiredScopes is
\* true exactly when every required scope is granted, an implied scope
\* counting as granted, which makes it true for an empty list.
C23_AnyOfSkillsAllOfScopes ==
  /\ (probe.fn = "hasRequiredSkills" /\ probeResult # <<>>) =>
       /\ probeResult[1] =
            (/\ probe.input.granted.present
             /\ probe.input.required # <<>>
             /\ Range(probe.input.required) \cap probe.input.granted.value # {})
       /\ probe.input.required = <<>> => probeResult[1] = FALSE
       /\ ~probe.input.granted.present => probeResult[1] = FALSE
  /\ (probe.fn = "hasRequiredScopes" /\ probeResult # <<>>) =>
       /\ probeResult[1] =
            (Range(probe.input.required)
               \subseteq expandScopes(probe.input.granted.value))
       /\ probe.input.required = <<>> => probeResult[1] = TRUE

\* One of two required skills is granted and hasRequiredSkills returned true.
C23_Witness ==
  /\ probe.fn = "hasRequiredSkills"
  /\ probeResult = <<TRUE>>
  /\ probe.input.required = <<"triage", "inspect">>
  /\ probe.input.granted = Defined({"inspect", "docs"})

\* C24: expandScopes is idempotent, contains the set it is given, and is
\* monotonic: the expansion of a set is contained in the expansion of every
\* set that contains it.
C24_ExpandIdempotentMonotonic ==
  (probe.fn = "expandScopes" /\ probeResult # <<>>) =>
    /\ probeResult[1].again = probeResult[1].first
    /\ probe.input.granted.value \subseteq probeResult[1].first
    /\ probeResult[1].first \subseteq probeResult[1].wider

\* A write scope expanded inside a larger set: the expansion added the read
\* scope and stays within the larger set's expansion.
C24_Witness ==
  /\ probe.fn = "expandScopes"
  /\ probeResult # <<>>
  /\ probe.input.granted.value = {"team:write"}
  /\ probe.input.within.value = {"team:write", "org:admin"}
  /\ probeResult[1].first = {"team:read", "team:write"}
  /\ Cardinality(probeResult[1].wider) = 5

\* C25: for every resource the expansion of its admin scope contains that of
\* its write scope, which contains that of its read scope, and every scope,
\* project:releases included, is in its own expansion.
C25_AdminWriteReadNested ==
  /\ (probe.fn = "expandScopes levels" /\ probeResult # <<>>) =>
       /\ probeResult[1].write \subseteq probeResult[1].admin
       /\ probeResult[1].read \subseteq probeResult[1].write
       /\ ScopeOf(probe.input.resource, "read") \in probeResult[1].read
       /\ ScopeOf(probe.input.resource, "write") \in probeResult[1].write
       /\ ScopeOf(probe.input.resource, "admin") \in probeResult[1].admin
  /\ (/\ probe.fn = "expandScopes" /\ probeResult # <<>>
      /\ Cardinality(probe.input.granted.value) = 1) =>
       probe.input.granted.value \subseteq probeResult[1].first

\* The three levels of a resource were expanded and nest strictly.
C25_Witness ==
  /\ probe.fn = "expandScopes levels"
  /\ probe.input.resource = "event"
  /\ probeResult =
       <<[read |-> {"event:read"},
          write |-> {"event:read", "event:write"},
          admin |-> {"event:read", "event:write", "event:admin"}]>>

\* C26: a failure to open the browser is swallowed: the call goes on to
\* await the callback with its listener still bound and the state and PKCE
\* challenge of its authorization URL unchanged, and a flow that completes
\* afterwards has verified that state and sent the verifier of that
\* challenge.
C26_BrowserFailureSwallowed ==
  /\ [][\A c \in Calls :
         OpenBrowser(c, FALSE) =>
           /\ pc'[c] = "awaiting"
           /\ future'[c] = PendingFuture
           /\ listener' = {c}
           /\ genState'[c] = genState[c]
           /\ authUrl'[c] = authUrl[c]
           /\ outcome'[c] = NoOutcome]_vars
  /\ [](\A c \in Calls :
         pc[c] \in {"awaiting", "exchanging", "caching", "done"} =>
           /\ authUrl[c].state = genState[c]
           /\ authUrl[c].code_challenge = Challenge(Verifier(c)))
  /\ [](\A r \in tokenRequests :
         /\ future[r.call].state = authUrl[r.call].state
         /\ Challenge(r.codeVerifier) = authUrl[r.call].code_challenge)

\* With a browser that never opens, a call has returned the token obtained
\* from a later callback.
C26_Witness ==
  \E c \in Calls :
    /\ pc[c] = "done"
    /\ outcome[c] = [kind |-> "token", value |-> "tokA"]
    /\ \E r \in tokenRequests : r.call = c /\ r.codeVerifier = Verifier(c)
    /\ listener = {}

\* The configuration supplies legacy scopes and no skills value.
LegacyScopesOnly(input) ==
  /\ input.allScopes \/ TruthyList(input.scopes) \/ TruthyList(input.addScopes)
  /\ ~input.skills.present

\* C27: a stdio session configured with legacy scopes and no skills value
\* carries one kind of grant, and its registered tools are exactly the tools
\* of the catalog whose requiredScopes are all within the resolved scopes.
C27_LegacyScopesDecideTools ==
  (cfgPc = "serving" /\ LegacyScopesOnly(merged)) =>
    /\ mcpServer["A"].context.grantedScopes.present
         # mcpServer["A"].context.grantedSkills.present
    /\ RegisteredNames("A") =
         {t.name : t \in {u \in mcpServer["A"].catalog :
                            isToolAllowed(u.requiredScopes, cfg.finalScopes.value)}}

\* C28: when authenticate() calls overlapped, the later one starting while
\* the earlier one awaited its callback, no callback listener is bound once
\* every call has returned or thrown.
C28_NoListenerAfterOverlap ==
  (\A c \in Calls : Finished(c)) => listener = {}

EmbeddedNames(s) == {t.name : t \in embedded[s].registered}

\* The names the grant of a context exposes over the default catalog.
ExposedByGrant(context) == {t.name : t \in RegisteredTools(context, tools)}

\* C29: the tool catalog the use_sentry handler hands to its embedded agent
\* never contains use_sentry and is a subset of the tools the grant of the
\* calling session exposes; it is built from the session's own context.
C29_AgentCatalogWithinGrant ==
  \A s \in Sessions :
    /\ mcpServer[s].built =>
         LET inner == UseSentryServer(mcpServer[s].context)
         IN /\ use_sentry \notin inner.catalog
            /\ {t.name : t \in inner.registered}
                  \subseteq ExposedByGrant(mcpServer[s].context)
    /\ embedded[s].built =>
         /\ embedded[s].context = mcpServer[s].context
         /\ "use_sentry" \notin EmbeddedNames(s)
         /\ EmbeddedNames(s) \subseteq ExposedByGrant(mcpServer[s].context)

\* The handler ran in an agent-mode session whose scopes allow reading
\* issues but not updating them.
C29_Witness ==
  /\ embedded["A"].built
  /\ mcpServer["A"].catalog = agentTools
  /\ "get_issue_details" \in EmbeddedNames("A")
  /\ "update_issue" \notin EmbeddedNames("A")

\* The collaborators the route called so far.
Performed(call) == call \in Range(callback.calls)

\* The order in which the route calls its collaborators.
CallOrder ==
  <<"verifyAndParseState", "clientIdAlreadyApproved", "lookupClient",
    "exchangeCodeForAccessToken", "completeAuthorization">>

\* The checks of the route in the order of the claim, each with the
\* response of its failure: signed state, clientId, redirectUri, resource,
\* approval, registration.
CallbackChecks(req) ==
  <<[passed |-> req.stateVerifies, status |-> 400, text |-> "Invalid state"],
    [passed |-> Truthy(req.clientId), status |-> 400, text |-> "Invalid state"],
    [passed |-> Truthy(req.redirectUri), status |-> 400,
     text |-> "Authorization failed: No redirect URL provided"],
    [passed |-> UrlParses(req.redirectUri), status |-> 400,
     text |-> "Authorization failed: Invalid redirect URL"],
    [passed |-> Truthy(req.resource) => req.resourceValid, status |-> 400,
     text |-> "Authorization failed: Invalid resource parameter"],
    [passed |-> req.isApproved, status |-> 403,
     text |-> "Authorization failed: Client not approved"],
    [passed |-> /\ ~req.client.throws
                /\ req.client.found
                /\ req.redirectUri \in req.client.redirectUris,
     status |-> 400, text |-> "Authorization failed: Invalid redirect URL"]>>

FailedChecks(req) ==
  {i \in 1..Len(CallbackChecks(req)) : ~CallbackChecks(req)[i].passed}

FirstFailedCheck(req) ==
  CallbackChecks(req)[CHOOSE i \in FailedChecks(req) :
                        \A j \in FailedChecks(req) : i <= j]

\* C30: GET /oauth/callback exchanges the code and completes the
\* authorization only after the signed state, the clientId and redirectUri
\* it carries, the resource, the client's approval and the registration of
\* the redirectUri all passed, in that order; a failed check answers 4xx,
\* that of the first failed check, with no exchange and no token issued.
C30_ExchangeOnlyAfterChecks ==
  /\ (Performed("exchangeCodeForAccessToken") \/ Performed("completeAuthorization"))
       => FailedChecks(callbackReq) = {}
  /\ callback.calls = SubSeq(CallOrder, 1, Len(callback.calls))
  /\ (callback.pc = "responded" /\ FailedChecks(callbackReq) # {}) =>
       /\ callback.status \in 400..499
       /\ callback.status = FirstFailedCheck(callbackReq).status
       /\ callback.text = FirstFailedCheck(callbackReq).text
       /\ ~Performed("exchangeCodeForAccessToken")
       /\ ~Performed("completeAuthorization")

\* A request carrying a resource passed every check and was redirected
\* after the exchange and completeAuthorization.
C30_Witness ==
  /\ callback.pc = "responded"
  /\ callback.status = 302
  /\ Truthy(callbackReq.resource)
  /\ callback.calls = CallOrder

====
